---- MODULE Spec2Model ----
(***************************************************************************)
(* A model of registration-checker (src/main.go): one run of main, which   *)
(* for every event ID of EVENT_IDS fetches the current roster, loads the   *)
(* previous one from <eventID>_teams.json, saves the current one, and      *)
(* posts the teams reported missing to a Slack webhook.                    *)
(*                                                                         *)
(* Strings that the program takes apart (EVENT_IDS, event IDs) are         *)
(* sequences of one-character strings; a formatted message is the sequence *)
(* of the pieces fmt.Sprintf joins.  Of a Team, the fields the program     *)
(* reads are kept (ID, Number, Organization); the others are only copied   *)
(* between JSON and the struct.  A nil slice and an empty slice are both   *)
(* <<>>: the program only ranges over slices and takes their length.       *)
(***************************************************************************)
EXTENDS Integers, Sequences, FiniteSets, TLC

VARIABLES
    env,           \* the process environment: API_TOKEN, SLACK_WEBHOOK_URL, EVENT_IDS
    files,         \* the snapshot files on disk, by event ID (<eventID>_teams.json)
    pc,            \* main's position
    exitCode,      \* the exit status of the process, -1 while it runs
    token,         \* main's locals
    webhookURL,
    eventIDs,
    idx,           \* number of elements of eventIDs the range loop has taken
    eventID,
    err,           \* the err of the loop body's scope (set by the fetch and the load)
    currTeams,
    prevTeams,
    missingTeams,
    eventName,
    httpStatus,    \* status of the roster response of this iteration (0: none)
    trace,         \* the steps taken in this iteration
    logged,        \* the log.Printf error lines of this iteration
    stdout,        \* the fmt.Printf lines of this iteration
    posted,        \* the payloads handed to http.Post in this iteration
    savedArg,      \* the snapshots saveTeams was called with in this iteration
    filesBefore,   \* the files as they were when this iteration began
    returned,      \* the errors the calls of this iteration returned, in order
    visited,       \* the event IDs whose iteration has begun, in order
    outcomes,      \* per finished iteration: "processed" or "aborted"
    fn,            \* a function of main.go applied on its own, its arguments, its result
    args,
    result

vars == <<env, files, pc, exitCode, token, webhookURL, eventIDs, idx, eventID, err,
          currTeams, prevTeams, missingTeams, eventName, httpStatus, trace,
          logged, stdout, posted, savedArg, filesBefore, returned, visited, outcomes,
          fn, args, result>>

mainVars == <<env, files, pc, exitCode, token, webhookURL, eventIDs, idx, eventID,
              err, currTeams, prevTeams, missingTeams, eventName, httpStatus, trace,
              logged, stdout, posted, savedArg, filesBefore, returned, visited,
              outcomes>>

unitVars == <<fn, args, result>>

----
\* Bounds of the model.

\* longest EVENT_IDS value, in characters
MaxEnvLen == 2

\* longest roster given to findMissingTeams and sendSlackMessage applied on their own
MaxUnitLen == 2

BoundedSeq(S, n) == UNION {[1..k -> S] : k \in 0..n}

----
\* Data.

\* a nil pointer (*APIResponse)
Nil == [nil |-> TRUE]

mkTeam(id, number, organization) ==
    [ID |-> id, Number |-> number, Organization |-> organization]

\* the teams a roster of a run of main is made of
RunTeams == {mkTeam(1, "A", "X"), mkTeam(2, "B", "Y")}

\* the teams given to the functions applied on their own: identifier 1 occurs
\* with two payloads
UnitTeams == RunTeams \cup {mkTeam(1, "C", "Z")}

mkAPIResponse(total, data) == [Meta |-> [Total |-> total], Data |-> data]

IDsOf(teams) == {teams[k].ID : k \in DOMAIN teams}

----
\* JSON, as encoding/json reads and writes it for the types of main.go.  A JSON
\* text is [kind |-> "json", value |-> <an object>] or [kind |-> "garbage"] (no
\* JSON value at all); an object is a record of its members.

Member(obj, name, zero) == IF name \in DOMAIN obj THEN obj[name] ELSE zero

teamObject(t) == [id |-> t.ID, number |-> t.Number, organization |-> t.Organization]

decodeTeam(obj) ==
    mkTeam(Member(obj, "id", 0), Member(obj, "number", ""), Member(obj, "organization", ""))

\* json.MarshalIndent of an *APIResponse
marshalAPIResponse(r) ==
    [kind  |-> "json",
     value |-> [meta |-> [total |-> r.Meta.Total],
                data |-> [k \in DOMAIN r.Data |-> teamObject(r.Data[k])]]]

\* Decode / Unmarshal into an APIResponse: members the struct does not name are
\* skipped, members the text does not have leave the zero value.
decodeAPIResponse(text) ==
    IF text.kind # "json"
    THEN [val |-> Nil, err |-> "decode"]
    ELSE LET meta == Member(text.value, "meta", [total |-> 0])
             data == Member(text.value, "data", <<>>)
         IN [val |-> mkAPIResponse(Member(meta, "total", 0),
                                   [k \in DOMAIN data |-> decodeTeam(data[k])]),
             err |-> "nil"]

----
\* The collaborators' answers.

\* an HTTP exchange: the transport fails, or a response arrives
TransportError == [failed |-> TRUE]
mkResponse(status, body) == [failed |-> FALSE, StatusCode |-> status, Body |-> body]

Garbage == [kind |-> "garbage"]
ErrorBody == [kind |-> "json", value |-> [message |-> "Unauthenticated."]]

\* the rosters the API can answer with: it lists a team of an event once, in
\* any order; meta.total counts the teams of the page
Rosters ==
    {d \in BoundedSeq(RunTeams, Cardinality(RunTeams)) :
        \A j, k \in DOMAIN d : d[j].ID = d[k].ID => j = k}
Snapshots == {mkAPIResponse(Len(d), d) : d \in Rosters}

StatusOK == 200

\* the roster endpoint answers 200 with a roster and anything else with an error
\* object; what stands between (a proxy) can answer either with no JSON at all
RosterResponses ==
    {TransportError}
    \cup {mkResponse(StatusOK, b) : b \in {marshalAPIResponse(r) : r \in Snapshots}
                                          \cup {Garbage}}
    \cup {mkResponse(401, b) : b \in {ErrorBody, Garbage}}

NameResponses ==
    {TransportError} \cup
    {mkResponse(s, b) : s \in {StatusOK, 401},
                        b \in {[kind |-> "json", value |-> [name |-> "Worlds"]],
                               ErrorBody, Garbage}}

SlackStatusCodes == {200, 201, 204, 299, 302, 404, 500}
SlackResponses ==
    {TransportError} \cup {mkResponse(s, Garbage) : s \in SlackStatusCodes}

\* a snapshot file: absent, present but unreadable, or its contents
Absent == [kind |-> "absent"]
Unreadable == [kind |-> "unreadable"]
FileStates ==
    {Absent, Unreadable, Garbage} \cup {marshalAPIResponse(r) : r \in Snapshots}

\* what ioutil.WriteFile can do: write the file, fail to open it (the file is
\* as it was), or fail after truncating it (the file is cut short)
WriteOutcomes == {"written", "openFailed", "writeFailed"}

----
\* The functions of main.go.

\* strings.Split(s, sep), sep one character: the pieces between the separators,
\* Count(s, sep) + 1 of them; the empty string gives one empty piece.
RECURSIVE Split(_, _)
Split(s, sep) ==
    IF \A k \in DOMAIN s : s[k] # sep
    THEN <<s>>
    ELSE LET m == CHOOSE k \in DOMAIN s : s[k] = sep /\ \A j \in 1..(k-1) : s[j] # sep
         IN <<SubSeq(s, 1, m - 1)>> \o Split(SubSeq(s, m + 1, Len(s)), sep)

\* fetchTeams, given what client.Do comes back with
fetchTeams(resp) ==
    IF resp.failed
    THEN [val |-> Nil, err |-> "transport"]
    ELSE decodeAPIResponse(resp.Body)

\* fetchEventName, given what client.Do comes back with
fetchEventName(resp) ==
    IF resp.failed
    THEN [val |-> "", err |-> "transport"]
    ELSE IF resp.Body.kind # "json"
         THEN [val |-> "", err |-> "decode"]
         ELSE [val |-> Member(resp.Body.value, "name", ""), err |-> "nil"]

\* loadPreviousTeams, given the state of the event's file
loadPreviousTeams(file) ==
    IF file.kind = "absent"
    THEN [val |-> Nil, err |-> "notExist"]
    ELSE IF file.kind = "unreadable"
         THEN [val |-> Nil, err |-> "read"]
         ELSE decodeAPIResponse(file)

\* a slip: the write reports success and leaves the file as it was
saveTeams_noWrite(file, teams, outcome) ==
    CASE outcome = "written"     -> [err |-> "nil", file |-> file]
      [] outcome = "openFailed"  -> [err |-> "write", file |-> file]
      [] outcome = "writeFailed" -> [err |-> "write", file |-> Garbage]

\* saveTeams: the error it returns and the file it leaves, given the file
\* before and what WriteFile does
saveTeams(file, teams, outcome) ==
    CASE outcome = "written"     -> [err |-> "nil", file |-> marshalAPIResponse(teams)]
      [] outcome = "openFailed"  -> [err |-> "write", file |-> file]
      [] outcome = "writeFailed" -> [err |-> "write", file |-> Garbage]

\* a slip: the last team of the comparison set left out of the map
buildCurrMap_skipLast(currTeams_) ==
    LET body == SubSeq(currTeams_, 1, Len(currTeams_) - 1)
    IN [id \in IDsOf(body) |->
           body[CHOOSE k \in DOMAIN body :
                   body[k].ID = id /\ \A j \in DOMAIN body : body[j].ID = id => j <= k]]

\* the map findMissingTeams builds: a later team of an ID replaces an earlier one
RECURSIVE buildCurrMap(_)
buildCurrMap(currTeams_) ==
    IF currTeams_ = <<>>
    THEN <<>>
    ELSE LET n    == Len(currTeams_)
             rest == buildCurrMap(SubSeq(currTeams_, 1, n - 1))
             team == currTeams_[n]
         IN [id \in DOMAIN rest \cup {team.ID} |->
                IF id = team.ID THEN team ELSE rest[id]]

\* a slip: the test of the lookup the wrong way round
RECURSIVE appendMissing_inverted(_, _)
appendMissing_inverted(prevTeams_, currMap) ==
    IF prevTeams_ = <<>>
    THEN <<>>
    ELSE LET n    == Len(prevTeams_)
             rest == appendMissing_inverted(SubSeq(prevTeams_, 1, n - 1), currMap)
             team == prevTeams_[n]
         IN IF team.ID \in DOMAIN currMap THEN Append(rest, team) ELSE rest

RECURSIVE appendMissing(_, _)
appendMissing(prevTeams_, currMap) ==
    IF prevTeams_ = <<>>
    THEN <<>>
    ELSE LET n    == Len(prevTeams_)
             rest == appendMissing(SubSeq(prevTeams_, 1, n - 1), currMap)
             team == prevTeams_[n]
         IN IF team.ID \notin DOMAIN currMap THEN Append(rest, team) ELSE rest

\* a slip: the arguments the wrong way round
findMissingTeams_swapped(prevTeams_, currTeams_) ==
    appendMissing(currTeams_, buildCurrMap(prevTeams_))

findMissingTeams(prevTeams_, currTeams_) ==
    appendMissing(prevTeams_, buildCurrMap(currTeams_))

\* the message sendSlackMessage composes, as the pieces Sprintf and += join;
\* NL is the line feed and BQ the backquote
NL == "<LF>"
BQ == "<BQ>"

\* a slip: each line put in front of the lines before it
RECURSIVE teamLines_prepended(_)
teamLines_prepended(teams) ==
    IF teams = <<>>
    THEN <<>>
    ELSE LET n == Len(teams)
         IN <<BQ, teams[n].Number, BQ, " - ", BQ, teams[n].Organization, BQ, NL>>
            \o teamLines_prepended(SubSeq(teams, 1, n - 1))

RECURSIVE teamLines(_)
teamLines(teams) ==
    IF teams = <<>>
    THEN <<>>
    ELSE LET n == Len(teams)
         IN teamLines(SubSeq(teams, 1, n - 1))
            \o <<BQ, teams[n].Number, BQ, " - ", BQ, teams[n].Organization, BQ, NL>>

composeMessage(eventName_, missingTeams_) ==
    IF Len(missingTeams_) = 0
    THEN <<"No teams are missing for event ", eventName_, ".">>
    ELSE <<"*Missing teams for* ", BQ, eventName_, BQ, ":", NL, NL>>
         \o teamLines(missingTeams_)

\* a slip: every status of the 200 class taken for success
postError_class200(resp) ==
    IF resp.failed
    THEN "transport"
    ELSE IF resp.StatusCode \notin 200..299 THEN "status" ELSE "nil"

\* the error sendSlackMessage returns, given what http.Post comes back with
postError(resp) ==
    IF resp.failed
    THEN "transport"
    ELSE IF resp.StatusCode # StatusOK THEN "status" ELSE "nil"

sendSlackMessage(url, eventName_, missingTeams_, resp) ==
    [payload |-> [url |-> url, text |-> composeMessage(eventName_, missingTeams_)],
     err     |-> postError(resp)]

----
\* main.

\* os.Getenv gives "" for a variable that is unset and for one set to "".
EnvChars == {"7", ","}
EnvStrings == BoundedSeq(EnvChars, MaxEnvLen)
Environments ==
    [API_TOKEN : {"", "secret"}, SLACK_WEBHOOK_URL : {"", "hook"}, EVENT_IDS : EnvStrings]

\* the event IDs a value of EVENT_IDS can name, and so the snapshot files
EventIDs == BoundedSeq(EnvChars \ {","}, MaxEnvLen)

\* a slip: the missing file not told apart from the other errors
IsNotExist_never(e) == FALSE

\* a slip: every error of the load taken for a missing file
IsNotExist_always(e) == TRUE

\* os.IsNotExist
IsNotExist(e) == e = "notExist"

\* the second argument main gives findMissingTeams
comparisonSet(curr) == <<>>

logLine(what, e) == [what |-> what, eventID |-> eventID, err |-> e]

\* the state before main runs: any environment, and any state of the files the
\* run can name (no other file is opened)
Init ==
    /\ env \in Environments
    /\ LET named == {Split(env.EVENT_IDS, ",")[k] : k \in 1..Len(Split(env.EVENT_IDS, ","))}
       IN files \in {[id \in EventIDs |-> IF id \in named THEN f[id] ELSE Absent] :
                        f \in [named -> FileStates]}
    /\ pc = "start"
    /\ exitCode = -1
    /\ token = ""
    /\ webhookURL = ""
    /\ eventIDs = <<>>
    /\ idx = 0
    /\ eventID = <<>>
    /\ err = "nil"
    /\ currTeams = Nil
    /\ prevTeams = Nil
    /\ missingTeams = <<>>
    /\ eventName = ""
    /\ httpStatus = 0
    /\ trace = <<>>
    /\ logged = <<>>
    /\ stdout = <<>>
    /\ posted = <<>>
    /\ savedArg = <<>>
    /\ filesBefore = files
    /\ returned = <<>>
    /\ visited = <<>>
    /\ outcomes = <<>>
    /\ fn = "none"
    /\ args = <<>>
    /\ result = <<>>

\* what an iteration leaves alone
iterationFrame == UNCHANGED <<env, exitCode, token, webhookURL, eventIDs, idx, eventID,
                              filesBefore, visited, fn, args, result>>

\* the error a call of this iteration returned
returnedBy(step, e) == Append(returned, [step |-> step, err |-> e])

\* a slip: the webhook URL is not looked at
configMissing_tokenOnly(e) == e.API_TOKEN = ""

\* lines 165-175: log.Fatal exits with status 1
configMissing(e) == e.API_TOKEN = "" \/ e.SLACK_WEBHOOK_URL = ""

Startup ==
    /\ pc = "start"
    /\ token' = env.API_TOKEN
    /\ IF configMissing(env)
       THEN /\ pc' = "exit"
            /\ exitCode' = 1
            /\ logged' = Append(logged, [what |-> "fatal", eventID |-> <<>>, err |-> "unset"])
            /\ UNCHANGED <<webhookURL, eventIDs>>
       ELSE /\ webhookURL' = env.SLACK_WEBHOOK_URL
            /\ eventIDs' = Split(env.EVENT_IDS, ",")
            /\ pc' = "loop"
            /\ UNCHANGED <<exitCode, logged>>
    /\ UNCHANGED <<env, files, idx, eventID, err, currTeams, prevTeams, missingTeams,
                   eventName, httpStatus, trace, stdout, posted, savedArg, filesBefore,
                   returned, visited, outcomes, fn, args, result>>

\* lines 177-178 and 218: the range loop takes the next event ID, or main returns
LoopHead ==
    /\ pc = "loop"
    /\ IF idx < Len(eventIDs)
       THEN /\ idx' = idx + 1
            /\ eventID' = eventIDs[idx + 1]
            /\ visited' = Append(visited, eventIDs[idx + 1])
            /\ pc' = "fetch"
            /\ err' = "nil"
            /\ currTeams' = Nil
            /\ prevTeams' = Nil
            /\ missingTeams' = <<>>
            /\ eventName' = ""
            /\ httpStatus' = 0
            /\ trace' = <<>>
            /\ logged' = <<>>
            /\ stdout' = <<"Processing event ID">>
            /\ posted' = <<>>
            /\ savedArg' = <<>>
            /\ filesBefore' = files
            /\ returned' = <<>>
            /\ UNCHANGED exitCode
       ELSE /\ pc' = "exit"
            /\ exitCode' = 0
            /\ UNCHANGED <<idx, eventID, visited, err, currTeams, prevTeams, missingTeams,
                           eventName, httpStatus, trace, logged, stdout, posted, savedArg,
                           filesBefore, returned>>
    /\ UNCHANGED <<env, files, token, webhookURL, eventIDs, outcomes, fn, args, result>>

\* a slip: log.Fatalf in place of log.Printf and continue
fatalWith(line) ==
    /\ logged' = Append(logged, line)
    /\ outcomes' = Append(outcomes, "aborted")
    /\ pc' = "crashed"

\* a slip: the failed step is tried again
continueWith_retry(line) ==
    /\ logged' = Append(logged, line)
    /\ outcomes' = outcomes
    /\ pc' = pc

\* after a failed step of an iteration: the error is logged and continue
\* ends the iteration
continueWith(line) ==
    /\ logged' = Append(logged, line)
    /\ outcomes' = Append(outcomes, "aborted")
    /\ pc' = "loop"

\* a slip: the continue after the failed fetch left out
Fetch_noContinue ==
    /\ pc = "fetch"
    /\ \E resp \in RosterResponses :
          LET r == fetchTeams(resp)
          IN /\ httpStatus' = IF resp.failed THEN 0 ELSE resp.StatusCode
             /\ currTeams' = r.val
             /\ err' = r.err
             /\ trace' = Append(trace, "Fetch")
             /\ returned' = returnedBy("Fetch", r.err)
             /\ pc' = "load"
             /\ outcomes' = outcomes
             /\ logged' = IF r.err # "nil"
                          THEN Append(logged, logLine("Error fetching teams", r.err))
                          ELSE logged
    /\ UNCHANGED <<files, prevTeams, missingTeams, eventName, stdout, posted, savedArg>>
    /\ iterationFrame

\* lines 181-185
Fetch ==
    /\ pc = "fetch"
    /\ \E resp \in RosterResponses :
          LET r == fetchTeams(resp)
          IN /\ httpStatus' = IF resp.failed THEN 0 ELSE resp.StatusCode
             /\ currTeams' = r.val
             /\ err' = r.err
             /\ trace' = Append(trace, "Fetch")
             /\ returned' = returnedBy("Fetch", r.err)
             /\ IF r.err # "nil"
                THEN continueWith(logLine("Error fetching teams", r.err))
                ELSE /\ pc' = "load"
                     /\ UNCHANGED <<logged, outcomes>>
    /\ UNCHANGED <<files, prevTeams, missingTeams, eventName, stdout, posted, savedArg>>
    /\ iterationFrame

\* lines 188-192
LoadPrevious ==
    /\ pc = "load"
    /\ LET r == loadPreviousTeams(files[eventID])
       IN /\ prevTeams' = r.val
          /\ err' = r.err
          /\ trace' = Append(trace, "LoadPrevious")
          /\ returned' = returnedBy("LoadPrevious", r.err)
          /\ IF r.err # "nil" /\ ~IsNotExist(r.err)
             THEN continueWith(logLine("Error reading previous teams file", r.err))
             ELSE /\ pc' = "save"
                  /\ UNCHANGED <<logged, outcomes>>
    /\ UNCHANGED <<files, currTeams, missingTeams, eventName, httpStatus, stdout, posted,
                   savedArg>>
    /\ iterationFrame

\* a slip: the save moved into the branch that has a previous snapshot
Persist_onlyWithPrevious ==
    /\ pc = "save"
    /\ \E outcome \in WriteOutcomes :
          LET r == saveTeams(files[eventID], currTeams, outcome)
          IN IF prevTeams = Nil
             THEN /\ pc' = "diff"
                  /\ UNCHANGED <<files, savedArg, trace, returned, logged, outcomes>>
             ELSE /\ files' = [files EXCEPT ![eventID] = r.file]
                  /\ savedArg' = Append(savedArg, currTeams)
                  /\ trace' = Append(trace, "Persist")
                  /\ returned' = returnedBy("Persist", r.err)
                  /\ IF r.err # "nil"
                     THEN continueWith(logLine("Error saving teams to file", r.err))
                     ELSE /\ pc' = "diff"
                          /\ UNCHANGED <<logged, outcomes>>
    /\ UNCHANGED <<err, currTeams, prevTeams, missingTeams, eventName, httpStatus, stdout,
                   posted>>
    /\ iterationFrame

\* a slip: one file name for every event
Persist_sharedFile ==
    /\ pc = "save"
    /\ \E outcome \in WriteOutcomes :
          LET r == saveTeams(files[<<>>], currTeams, outcome)
          IN /\ files' = [files EXCEPT ![<<>>] = r.file]
             /\ savedArg' = Append(savedArg, currTeams)
             /\ trace' = Append(trace, "Persist")
             /\ returned' = returnedBy("Persist", r.err)
             /\ IF r.err # "nil"
                THEN continueWith(logLine("Error saving teams to file", r.err))
                ELSE /\ pc' = "diff"
                     /\ UNCHANGED <<logged, outcomes>>
    /\ UNCHANGED <<err, currTeams, prevTeams, missingTeams, eventName, httpStatus, stdout,
                   posted>>
    /\ iterationFrame

\* lines 195-198
Persist ==
    /\ pc = "save"
    /\ \E outcome \in WriteOutcomes :
          LET r == saveTeams(files[eventID], currTeams, outcome)
          IN /\ files' = [files EXCEPT ![eventID] = r.file]
             /\ savedArg' = Append(savedArg, currTeams)
             /\ trace' = Append(trace, "Persist")
             /\ returned' = returnedBy("Persist", r.err)
             /\ IF r.err # "nil"
                THEN continueWith(logLine("Error saving teams to file", r.err))
                ELSE /\ pc' = "diff"
                     /\ UNCHANGED <<logged, outcomes>>
    /\ UNCHANGED <<err, currTeams, prevTeams, missingTeams, eventName, httpStatus, stdout,
                   posted>>
    /\ iterationFrame

\* a slip: the notification not kept to a diff that has teams
Diff_alwaysNotify ==
    /\ pc = "diff"
    /\ IF prevTeams # Nil
       THEN LET missing == findMissingTeams(prevTeams.Data, comparisonSet(currTeams))
            IN /\ missingTeams' = missing
               /\ trace' = Append(trace, "Diff")
               /\ pc' = "name"
               /\ UNCHANGED <<outcomes, stdout>>
       ELSE /\ stdout' = Append(stdout, "No previous team data to compare")
            /\ pc' = "loop"
            /\ outcomes' = Append(outcomes, "processed")
            /\ UNCHANGED <<missingTeams, trace>>
    /\ UNCHANGED <<files, err, currTeams, prevTeams, eventName, httpStatus, logged, posted,
                   savedArg, returned>>
    /\ iterationFrame

\* lines 201-203 and 214-216
Diff ==
    /\ pc = "diff"
    /\ IF prevTeams # Nil
       THEN LET missing == findMissingTeams(prevTeams.Data, comparisonSet(currTeams))
            IN /\ missingTeams' = missing
               /\ trace' = Append(trace, "Diff")
               /\ IF Len(missing) > 0
                  THEN /\ pc' = "name"
                       /\ UNCHANGED outcomes
                  ELSE /\ pc' = "loop"
                       /\ outcomes' = Append(outcomes, "processed")
               /\ UNCHANGED stdout
       ELSE /\ stdout' = Append(stdout, "No previous team data to compare")
            /\ pc' = "loop"
            /\ outcomes' = Append(outcomes, "processed")
            /\ UNCHANGED <<missingTeams, trace>>
    /\ UNCHANGED <<files, err, currTeams, prevTeams, eventName, httpStatus, logged, posted,
                   savedArg, returned>>
    /\ iterationFrame

\* a slip: the error of the name request dropped
ResolveName_ignoreError ==
    /\ pc = "name"
    /\ \E resp \in NameResponses :
          LET r == fetchEventName(resp)
          IN /\ eventName' = r.val
             /\ trace' = Append(trace, "ResolveName")
             /\ returned' = returnedBy("ResolveName", r.err)
             /\ pc' = "notify"
             /\ UNCHANGED <<logged, outcomes>>
    /\ UNCHANGED <<files, err, currTeams, prevTeams, missingTeams, httpStatus, stdout,
                   posted, savedArg>>
    /\ iterationFrame

\* lines 204-208
ResolveName ==
    /\ pc = "name"
    /\ \E resp \in NameResponses :
          LET r == fetchEventName(resp)
          IN /\ eventName' = r.val
             /\ trace' = Append(trace, "ResolveName")
             /\ returned' = returnedBy("ResolveName", r.err)
             /\ IF r.err # "nil"
                THEN continueWith(logLine("Error retrieving name of event", r.err))
                ELSE /\ pc' = "notify"
                     /\ UNCHANGED <<logged, outcomes>>
    /\ UNCHANGED <<files, err, currTeams, prevTeams, missingTeams, httpStatus, stdout,
                   posted, savedArg>>
    /\ iterationFrame

\* lines 210-212
Notify ==
    /\ pc = "notify"
    /\ \E resp \in SlackResponses :
          LET r == sendSlackMessage(webhookURL, eventName, missingTeams, resp)
          IN /\ posted' = Append(posted, r.payload)
             /\ trace' = Append(trace, "Notify")
             /\ returned' = returnedBy("Notify", r.err)
             /\ IF r.err # "nil"
                THEN continueWith(logLine("Error sending Slack message", r.err))
                ELSE /\ pc' = "loop"
                     /\ outcomes' = Append(outcomes, "processed")
                     /\ UNCHANGED logged
    /\ UNCHANGED <<files, err, currTeams, prevTeams, missingTeams, eventName, httpStatus,
                   stdout, savedArg>>
    /\ iterationFrame

Next ==
    \/ Startup
    \/ LoopHead
    \/ Fetch
    \/ LoadPrevious
    \/ Persist
    \/ Diff
    \/ ResolveName
    \/ Notify

Spec == Init /\ [][Next]_vars

\* main is one sequential process: a step that can be taken is taken
LiveSpec == Spec /\ WF_vars(Next)

----
\* The functions of main.go applied on their own: each step applies one of them
\* to arguments of its own choice.

UnitInit ==
    /\ env = [API_TOKEN |-> "", SLACK_WEBHOOK_URL |-> "", EVENT_IDS |-> <<>>]
    /\ files = [id \in EventIDs |-> Absent]
    /\ pc = "unit"
    /\ exitCode = -1
    /\ token = ""
    /\ webhookURL = ""
    /\ eventIDs = <<>>
    /\ idx = 0
    /\ eventID = <<>>
    /\ err = "nil"
    /\ currTeams = Nil
    /\ prevTeams = Nil
    /\ missingTeams = <<>>
    /\ eventName = ""
    /\ httpStatus = 0
    /\ trace = <<>>
    /\ logged = <<>>
    /\ stdout = <<>>
    /\ posted = <<>>
    /\ savedArg = <<>>
    /\ filesBefore = files
    /\ returned = <<>>
    /\ visited = <<>>
    /\ outcomes = <<>>
    /\ fn = "none"
    /\ args = <<>>
    /\ result = <<>>

UnitRosters == BoundedSeq(UnitTeams, MaxUnitLen)

CallFindMissingTeams ==
    /\ pc = "unit"
    /\ \E p \in UnitRosters, c \in UnitRosters :
          /\ fn' = "findMissingTeams"
          /\ args' = <<p, c>>
          /\ result' = findMissingTeams(p, c)
    /\ UNCHANGED mainVars

CallSendSlackMessage ==
    /\ pc = "unit"
    /\ \E name \in {"", "Worlds"}, m \in UnitRosters, resp \in SlackResponses :
          /\ fn' = "sendSlackMessage"
          /\ args' = <<"hook", name, m, resp>>
          /\ result' = sendSlackMessage("hook", name, m, resp)
    /\ UNCHANGED mainVars

UnitNext ==
    \/ CallFindMissingTeams
    \/ CallSendSlackMessage

UnitSpec == UnitInit /\ [][UnitNext]_vars

----
\* Properties.

Did(step) == \E k \in DOMAIN trace : trace[k] = step

\* an iteration of the loop has ended and the next has not begun: the locals and
\* the iteration's records are those of the iteration that ended
IterationOver == idx > 0 /\ pc \in {"loop", "exit"}

\* the fetch of this iteration succeeded
FetchSucceeded == Did("Fetch") /\ currTeams # Nil

\* the teams of prev whose ID no team of curr has, in prev's order
MissingFrom(prev, curr) == SelectSeq(prev, LAMBDA t : t.ID \notin IDsOf(curr))

\* C1: whenever main has computed a diff, the teams it reports missing are
\* exactly the teams of the previous snapshot whose ID the freshly fetched
\* snapshot does not have.
C1_DiffAgainstCurrent ==
    Did("Diff") => missingTeams = MissingFrom(prevTeams.Data, currTeams.Data)

\* C2: findMissingTeams(previous, comparisonSet) is the subsequence of previous,
\* in order, of the teams whose ID does not occur in comparisonSet, and holds no
\* team whose ID occurs in comparisonSet (duplicate IDs included).
C2_FindMissingTeams ==
    fn = "findMissingTeams" =>
        /\ result = MissingFrom(args[1], args[2])
        /\ \A k \in DOMAIN result : result[k].ID \notin IDsOf(args[2])

C2_Witness ==
    /\ fn = "findMissingTeams"
    /\ Len(args[2]) = 2
    /\ args[2][1].ID = args[2][2].ID
    /\ args[2][1] # args[2][2]
    /\ Len(args[1]) = 2
    /\ Len(result) = 1

\* C3, as claimed: once an iteration whose fetch succeeded is over, saveTeams
\* has been called in it with the fetched snapshot, whatever the load did.
C3_AlwaysPersisted ==
    (IterationOver /\ FetchSucceeded) => savedArg = <<currTeams>>

\* C3, amended: once an iteration whose fetch succeeded and whose load succeeded
\* or found no file is over, saveTeams has been called in it, once, with the
\* fetched snapshot.
C3_PersistedUnlessLoadFails ==
    (IterationOver /\ FetchSucceeded /\ err \in {"nil", "notExist"})
        => savedArg = <<currTeams>>

C3_Witness ==
    /\ IterationOver
    /\ FetchSucceeded
    /\ err = "notExist"
    /\ ~Did("Diff")
    /\ savedArg = <<currTeams>>
    /\ Len(currTeams.Data) > 0

IsPrefix(s, t) == Len(s) <= Len(t) /\ s = SubSeq(t, 1, Len(s))

RunDone ==
    /\ pc = "exit"
    /\ exitCode = 0
    /\ visited = eventIDs
    /\ Len(outcomes) = Len(eventIDs)

\* C4: the iterations begin in list order, each iteration that is over ended
\* processed or aborted with an error logged, and once main has entered the
\* loop it ends with status 0 after an iteration for every ID of the list,
\* whatever failed on the way.
C4_EveryIDProcessed ==
    /\ [](/\ IsPrefix(visited, eventIDs)
          /\ \A k \in DOMAIN outcomes : outcomes[k] \in {"processed", "aborted"}
          /\ IterationOver =>
                /\ Len(outcomes) = idx
                /\ (outcomes[idx] = "aborted") <=> (logged # <<>>))
    /\ (pc = "loop") ~> RunDone

C4_Witness ==
    /\ RunDone
    /\ Len(eventIDs) >= 2
    /\ eventIDs[1] # eventIDs[2]
    /\ outcomes[1] = "aborted"
    /\ outcomes[2] = "processed"

\* the load of this iteration found no snapshot file
NoPreviousFile == Did("LoadPrevious") /\ err = "notExist"

\* C5, as claimed: an iteration whose fetch succeeded and that found no
\* snapshot file computes no diff, calls saveTeams with the fetched snapshot,
\* resolves no name, posts nothing and logs no error.
C5_FirstRunSilent ==
    (IterationOver /\ FetchSucceeded /\ NoPreviousFile) =>
        /\ ~Did("Diff")
        /\ savedArg = <<currTeams>>
        /\ ~Did("ResolveName")
        /\ posted = <<>>
        /\ logged = <<>>

\* C5, amended: such an iteration computes no diff, calls saveTeams with the
\* fetched snapshot, resolves no name and posts nothing; it logs no error
\* unless that save fails, and then the save's error alone; when nothing is
\* logged the file holds the fetched snapshot.
C5_FirstRun ==
    (IterationOver /\ FetchSucceeded /\ NoPreviousFile) =>
        /\ ~Did("Diff")
        /\ savedArg = <<currTeams>>
        /\ ~Did("ResolveName")
        /\ posted = <<>>
        /\ \/ logged = <<>> /\ files[eventID] = marshalAPIResponse(currTeams)
           \/ /\ Len(logged) = 1
              /\ logged[1].what = "Error saving teams to file"
              /\ logged[1].eventID = eventID

C5_Witness ==
    /\ IterationOver
    /\ FetchSucceeded
    /\ NoPreviousFile
    /\ Len(currTeams.Data) = 2
    /\ logged = <<>>
    /\ files[eventID] = marshalAPIResponse(currTeams)
    /\ outcomes[idx] = "processed"

\* C6: with EVENT_IDS unset or empty the loop makes no iteration: no step of
\* any iteration is ever taken.
C6_EmptyListNoIteration ==
    env.EVENT_IDS = <<>> =>
        /\ idx = 0
        /\ visited = <<>>
        /\ trace = <<>>
        /\ pc \in {"start", "loop", "exit"}

IsSuccessStatus(status) == status \in 200..299

\* C7: when the roster request is answered with a status outside the 200 class,
\* fetchTeams returns an error, and saveTeams is not called for that ID.
C7_NonSuccessIsError ==
    (Did("Fetch") /\ httpStatus # 0 /\ ~IsSuccessStatus(httpStatus)) =>
        /\ err # "nil"
        /\ currTeams = Nil
        /\ savedArg = <<>>

\* C8, as claimed: sendSlackMessage returns nil exactly when the post was
\* answered with a status of the 200 class.
C8_SuccessOnClass200 ==
    fn = "sendSlackMessage" =>
        ((result.err = "nil") <=> (~args[4].failed /\ IsSuccessStatus(args[4].StatusCode)))

\* C8, amended: sendSlackMessage returns nil exactly when the post was answered
\* with status 200; a transport failure and every other status, 201..299
\* included, give an error.
C8_SuccessOnlyOn200 ==
    fn = "sendSlackMessage" =>
        ((result.err = "nil") <=> (~args[4].failed /\ args[4].StatusCode = 200))

C8_Witness ==
    /\ fn = "sendSlackMessage"
    /\ ~args[4].failed
    /\ args[4].StatusCode = 204
    /\ result.err = "status"

\* C9: the message of sendSlackMessage is, for no team, the one sentence that no
\* teams are missing, naming the event; otherwise a header naming the event and
\* then one line per team, in order, with the team's number and organization,
\* and nothing else.
C9_Message ==
    fn = "sendSlackMessage" =>
        LET name == args[2]
            m    == args[3]
            text == result.payload.text
        IN IF m = <<>>
           THEN text = <<"No teams are missing for event ", name, ".">>
           ELSE /\ Len(text) = 7 + 8 * Len(m)
                /\ SubSeq(text, 1, 7) = <<"*Missing teams for* ", BQ, name, BQ, ":", NL, NL>>
                /\ \A i \in 1..Len(m) :
                      SubSeq(text, 8 * i, 8 * i + 7) =
                          <<BQ, m[i].Number, BQ, " - ", BQ, m[i].Organization, BQ, NL>>

C9_Witness ==
    /\ fn = "sendSlackMessage"
    /\ Len(args[3]) = 2
    /\ args[3][1].Number # args[3][2].Number
    /\ args[2] = "Worlds"
    /\ Len(result.payload.text) = 23

\* C10: with API_TOKEN or SLACK_WEBHOOK_URL unset, main ends with status 1
\* before the loop: no iteration begins and nothing is fetched, loaded, saved,
\* resolved or posted.
C10_FatalBeforeLoop ==
    (env.API_TOKEN = "" \/ env.SLACK_WEBHOOK_URL = "") =>
        /\ pc \in {"start", "exit"}
        /\ pc = "exit" => exitCode = 1
        /\ idx = 0
        /\ visited = <<>>
        /\ trace = <<>>
        /\ savedArg = <<>>
        /\ posted = <<>>

C10_Witness ==
    /\ pc = "exit"
    /\ exitCode = 1
    /\ env.API_TOKEN # ""
    /\ env.SLACK_WEBHOOK_URL = ""
    /\ Len(Split(env.EVENT_IDS, ",")) >= 2

\* the order of the steps of an iteration
StepOrder == <<"Fetch", "LoadPrevious", "Persist", "Diff", "ResolveName", "Notify">>
Rank(step) == CHOOSE k \in DOMAIN StepOrder : StepOrder[k] = step

\* C11: the steps taken in an iteration are steps of Fetch, LoadPrevious,
\* Persist, Diff, ResolveName, Notify, taken in that order and each at most
\* once; a step is taken only after the steps it needs, so Persist comes before
\* any ResolveName or Notify.
C11_StepOrder ==
    /\ \A k \in DOMAIN trace : \E r \in DOMAIN StepOrder : StepOrder[r] = trace[k]
    /\ \A j, k \in DOMAIN trace : j < k => Rank(trace[j]) < Rank(trace[k])
    /\ trace # <<>> => trace[1] = "Fetch"
    /\ Did("Persist") => Did("LoadPrevious")
    /\ Did("Diff") => Did("Persist")
    /\ Did("ResolveName") => Did("Diff") /\ Did("Persist")
    /\ Did("Notify") => Did("ResolveName") /\ Did("Persist")

C11_Witness ==
    /\ trace = StepOrder
    /\ IterationOver

\* the save of this iteration succeeded
PersistSucceeded ==
    /\ Did("Persist")
    /\ \A k \in DOMAIN logged : logged[k].what # "Error saving teams to file"

\* the name request of this iteration succeeded
NameResolved ==
    /\ Did("ResolveName")
    /\ \A k \in DOMAIN logged : logged[k].what # "Error retrieving name of event"

\* C12: a payload is posted in an iteration only after its fetch succeeded, a
\* previous snapshot was loaded, its save succeeded, its diff has at least one
\* team and its name request succeeded; the payload carries the message for
\* that diff, never the no-teams message, and at most one payload is posted per
\* iteration.
C12_NotifyOnlyWhen ==
    posted # <<>> =>
        /\ Len(posted) = 1
        /\ FetchSucceeded
        /\ prevTeams # Nil
        /\ PersistSucceeded
        /\ Did("Diff")
        /\ Len(missingTeams) > 0
        /\ NameResolved
        /\ posted[1].text = composeMessage(eventName, missingTeams)
        /\ posted[1].text[1] # "No teams are missing for event "

C12_Witness ==
    /\ IterationOver
    /\ Len(posted) = 1
    /\ logged = <<>>
    /\ Len(missingTeams) = 2

\* the load of this iteration failed with an error other than a missing file
LoadFailed == Did("LoadPrevious") /\ err \notin {"nil", "notExist"}

\* C13: when the load fails with an error other than a missing file, the
\* iteration is over at once: saveTeams is not called, every file is as it was,
\* no diff is computed, nothing is posted, one error is logged, for this event
\* ID, and the loop is at its head for the next ID.
C13_LoadErrorStops ==
    LoadFailed =>
        /\ IterationOver
        /\ exitCode \in {-1, 0}
        /\ trace = <<"Fetch", "LoadPrevious">>
        /\ savedArg = <<>>
        /\ files = filesBefore
        /\ missingTeams = <<>>
        /\ posted = <<>>
        /\ Len(logged) = 1
        /\ logged[1].what = "Error reading previous teams file"
        /\ logged[1].eventID = eventID
        /\ outcomes[idx] = "aborted"

C13_Witness ==
    /\ LoadFailed
    /\ err = "decode"
    /\ currTeams # Nil
    /\ Len(currTeams.Data) > 0
    /\ pc = "loop"
    /\ idx < Len(eventIDs)

\* a call of this iteration returned an error, or none
Failed(step) == \E k \in DOMAIN returned : returned[k].step = step /\ returned[k].err # "nil"
Succeeded(step) == \E k \in DOMAIN returned : returned[k].step = step /\ returned[k].err = "nil"

\* C14: when fetchTeams returns an error the iteration is over at once: no
\* load, save, diff, name request or post, every file as it was, and exactly
\* one error logged, for this event ID.
C14_FetchErrorStops ==
    Failed("Fetch") =>
        /\ IterationOver
        /\ trace = <<"Fetch">>
        /\ prevTeams = Nil
        /\ savedArg = <<>>
        /\ files = filesBefore
        /\ missingTeams = <<>>
        /\ posted = <<>>
        /\ Len(logged) = 1
        /\ logged[1].what = "Error fetching teams"
        /\ logged[1].eventID = eventID

C14_Witness ==
    /\ Failed("Fetch")
    /\ files[eventID].kind = "json"
    /\ Len(files[eventID].value.data) = 2
    /\ pc = "loop"
    /\ idx < Len(eventIDs)

\* C15: when the name request fails (the diff then has teams) one error is
\* logged, for this event ID, nothing is posted and the loop is at its head for
\* the next ID; when the post fails one error is logged, for this event ID, and
\* the loop is at its head for the next ID.
C15_NameOrPostErrorLogged ==
    /\ Failed("ResolveName") =>
          /\ IterationOver
          /\ exitCode \in {-1, 0}
          /\ Len(missingTeams) > 0
          /\ ~Did("Notify")
          /\ posted = <<>>
          /\ Len(logged) = 1
          /\ logged[1].what = "Error retrieving name of event"
          /\ logged[1].eventID = eventID
    /\ Failed("Notify") =>
          /\ IterationOver
          /\ exitCode \in {-1, 0}
          /\ Len(logged) = 1
          /\ logged[1].what = "Error sending Slack message"
          /\ logged[1].eventID = eventID

C15_Witness ==
    /\ Failed("ResolveName")
    /\ Len(missingTeams) = 2
    /\ pc = "loop"
    /\ idx < Len(eventIDs)

\* C16: from the successful save of a successfully fetched snapshot to the end
\* of the iteration, whatever the later steps do, the event's file holds that
\* snapshot: loading it gives the fetched snapshot back, same teams, same
\* order, same total.
C16_SnapshotVerbatim ==
    (Succeeded("Fetch") /\ Succeeded("Persist")) =>
        /\ files[eventID].kind = "json"
        /\ loadPreviousTeams(files[eventID]) = [val |-> currTeams, err |-> "nil"]

C16_Witness ==
    /\ IterationOver
    /\ Succeeded("Persist")
    /\ Failed("Notify")
    /\ Len(currTeams.Data) = 2
    /\ currTeams.Meta.Total = 2
    /\ prevTeams # currTeams
    /\ loadPreviousTeams(files[eventID]).val = currTeams

\* C17: an iteration changes no file but its own event's; its locals start
\* fresh, its previous snapshot is what its own event's file held when it
\* began, and its diff and its message are made from its own snapshots.
C17_OnlyOwnFile ==
    /\ idx > 0 => \A id \in EventIDs : id # eventID => files[id] = filesBefore[id]
    /\ pc = "fetch" =>
          /\ currTeams = Nil
          /\ prevTeams = Nil
          /\ missingTeams = <<>>
          /\ eventName = ""
          /\ posted = <<>>
    /\ Did("LoadPrevious") => prevTeams = loadPreviousTeams(filesBefore[eventID]).val
    /\ Did("Diff") => \A k \in DOMAIN missingTeams :
                         \E j \in DOMAIN prevTeams.Data : missingTeams[k] = prevTeams.Data[j]
    /\ posted # <<>> => posted[1].text = composeMessage(eventName, missingTeams)

C17_Witness ==
    /\ IterationOver
    /\ idx = 2
    /\ eventIDs[1] # eventIDs[2]
    /\ Succeeded("Persist")
    /\ files[eventID] # filesBefore[eventID]
    /\ files[eventIDs[1]].kind = "json"
    /\ Len(files[eventIDs[1]].value.data) = 2
    /\ filesBefore[eventID].kind = "json"

\* C18: findMissingTeams(X, X) is empty for every roster X, rosters in which an
\* ID occurs more than once included.
C18_NothingMissingFromItself ==
    (fn = "findMissingTeams" /\ args[1] = args[2]) => result = <<>>

C18_Witness ==
    /\ fn = "findMissingTeams"
    /\ args[1] = args[2]
    /\ Len(args[1]) = 2
    /\ args[1][1].ID = args[1][2].ID
    /\ args[1][1] # args[1][2]
    /\ result = <<>>

\* C19: findMissingTeams(X, <<>>) is X, every team in the same order, and
\* findMissingTeams(<<>>, Y) is empty; the result is a roster in every case.
C19_EmptyArguments ==
    fn = "findMissingTeams" =>
        /\ args[2] = <<>> => result = args[1]
        /\ args[1] = <<>> => result = <<>>
        /\ result \in BoundedSeq(UnitTeams, Len(args[1]))

C19_Witness ==
    /\ fn = "findMissingTeams"
    /\ args[2] = <<>>
    /\ Len(args[1]) = 2
    /\ args[1][1] # args[1][2]
    /\ result = args[1]

====
